---- MODULE Spec2Model ----
(***************************************************************************)
(* Model of image_organizer.py: the date and size organizers, the          *)
(* duplicate finder and remover, and the command dispatcher, acting on the *)
(* files below one source directory.                                       *)
(***************************************************************************)
EXTENDS Integers, Sequences, FiniteSets, TLC

VARIABLES
  fs,      \* the files below the source directory
  last,    \* the operation that ran last
  copies,  \* history: the number of files copied to each target
  runs     \* the number of operations run

vars == <<fs, last, copies, runs>>

(* ------------------------------ bounds --------------------------------- *)

\* Largest number of files the source directory starts with.
MaxFiles == 3

\* Largest number of operations run in one behaviour.
MaxOps == 2

\* The same two bounds for the behaviours of the command line.
MaxMainFiles == 2

MaxMainOps == 1

(* --------------------------- program constants ------------------------- *)

SmallLimit == 500000

MediumLimit == 2000000

SupportedExts == {".jpg", ".jpeg", ".png", ".gif", ".bmp", ".webp", ".tiff"}

DateTargetDir == "organized_by_date"

SizeTargetDir == "organized_by_size"

(* ------------------------------ strings -------------------------------- *)

Digit(n) ==
  CASE n = 0 -> "0" [] n = 1 -> "1" [] n = 2 -> "2" [] n = 3 -> "3"
    [] n = 4 -> "4" [] n = 5 -> "5" [] n = 6 -> "6" [] n = 7 -> "7"
    [] n = 8 -> "8" [] n = 9 -> "9"

\* str(n) / f"{n}" of a non-negative integer.
RECURSIVE ToStr(_)
ToStr(n) == IF n < 10 THEN Digit(n) ELSE ToStr(n \div 10) \o Digit(n % 10)

\* f"{n:02d}"
Pad2(n) == IF n < 10 THEN "0" \o Digit(n) ELSE ToStr(n)

\* str.lower() on the extensions that occur in the model.
Lower(ext) ==
  CASE ext = ".JPG" -> ".jpg"
    [] ext = ".Png" -> ".png"
    [] OTHER -> ext

\* Path / name
Join(dir, name) == IF dir = "" THEN name ELSE dir \o "/" \o name

(* ------------------------------ date-times ----------------------------- *)

Epoch2021 == 1609459200

SecondsPerDay == 86400

MonthDays2021 == <<31, 28, 31, 30, 31, 30, 31, 31, 30, 31, 30, 31>>

RECURSIVE MonthOf(_, _)
MonthOf(dayOfYear, m) ==
  IF dayOfYear < MonthDays2021[m] THEN <<m, dayOfYear + 1>>
  ELSE MonthOf(dayOfYear - MonthDays2021[m], m + 1)

\* datetime.fromtimestamp(t) for a time stamp of the year 2021 (UTC).
FromTimestamp(t) ==
  LET s  == t - Epoch2021
      md == MonthOf(s \div SecondsPerDay, 1)
      r  == s % SecondsPerDay
  IN  [year |-> 2021, month |-> md[1], day |-> md[2],
       hour |-> r \div 3600, minute |-> (r % 3600) \div 60, second |-> r % 60]

\* datetime.strptime(value, '%Y:%m:%d %H:%M:%S'): the fields of the value,
\* or a ValueError when a field is out of range.
StrptimeOk(v) ==
  /\ v[2] \in 1..12 /\ v[3] \in 1..31
  /\ v[4] \in 0..23 /\ v[5] \in 0..59 /\ v[6] \in 0..59

Strptime(v) ==
  [year |-> v[1], month |-> v[2], day |-> v[3],
   hour |-> v[4], minute |-> v[5], second |-> v[6]]

\* date.strftime('%Y%m%d_%H%M%S')
Strftime(d) ==
  ToStr(d.year) \o Pad2(d.month) \o Pad2(d.day) \o "_"
    \o Pad2(d.hour) \o Pad2(d.minute) \o Pad2(d.second)

(* ------------------------------ the files ------------------------------ *)

NoExif == << >>

\* What the bytes of a file decode to: whether PIL opens them as an image,
\* the image's dimensions, and the value of its EXIF tag 36867 (NoExif when
\* the image has none).
Contents ==
  [c \in {"photo", "notes"} |->
     IF c = "photo"
     THEN [img |-> TRUE,  w |-> 1000, h |-> 500, exif |-> <<2021, 6, 15, 10, 30, 0>>]
     ELSE [img |-> FALSE, w |-> 0,    h |-> 0,   exif |-> NoExif]]

\* Modification times: 2021-07-02 00:00:05, one second later, one day later.
MTimes == <<1625184005, 1625184006, 1625270405>>

T1 == MTimes[1]

T2 == MTimes[2]

T3 == MTimes[3]

\* A file: the directory it is in (relative to the source directory, "" for
\* the source directory itself), its name with the name's stem and suffix,
\* its bytes, its modification time, and whether it can be read and unlinked.
File(stem, ext, content, mtime, readable, deletable) ==
  [dir |-> "", name |-> stem \o ext, stem |-> stem, ext |-> ext,
   content |-> content, mtime |-> mtime, readable |-> readable,
   deletable |-> deletable]

\* The files a source directory of the model is made of.
Universe ==
  { File("a",   ".jpg", "photo", T1, TRUE,  TRUE),
    File("a_1", ".jpg", "photo", T2, TRUE,  TRUE),
    File("b",   ".JPG", "photo", T3, TRUE,  TRUE),
    File("c",   ".png", "notes", T1, TRUE,  FALSE),
    File("d",   ".txt", "photo", T2, TRUE,  TRUE),
    File("g",   ".jpg", "notes", T1, TRUE,  TRUE),
    File("h",   ".Png", "photo", T3, FALSE, TRUE) }

Name(f) == f.name

SamePath(f, g) == f.dir = g.dir /\ f.name = g.name

\* Path.exists() of dir / name
Exists(files, dir, name) == \E f \in files : f.dir = dir /\ f.name = name

\* source_path.glob('*.*'): the entries directly in the source directory
\* whose name holds a dot.
Glob(files) == {f \in files : f.dir = "" /\ f.ext # ""}

\* img_file.suffix.lower() in [...]
Selected(f) == Lower(f.ext) \in SupportedExts

\* The orders in which a directory scan can yield the set S.
RECURSIVE ScanOrders(_)
ScanOrders(S) ==
  IF S = {} THEN {<< >>}
  ELSE UNION {{<<f>> \o o : o \in ScanOrders(S \ {f})} : f \in S}

(* ------------------------------ helpers -------------------------------- *)

\* get_image_date: EXIF DateTimeOriginal when the file opens as an image and
\* the value parses, the modification time otherwise.
get_image_date(f) ==
  LET c == Contents[f.content]
  IN  IF f.readable /\ c.img /\ c.exif # NoExif /\ StrptimeOk(c.exif)
      THEN Strptime(c.exif)
      ELSE FromTimestamp(f.mtime)

\* get_image_size: (width, height), (0, 0) when the file does not open.
get_image_size(f) ==
  LET c == Contents[f.content]
  IN  IF f.readable /\ c.img THEN <<c.w, c.h>> ELSE <<0, 0>>

\* Faulty variant: the first threshold compared with <=.
categorize_by_size_inclusive(width, height) ==
  LET total_pixels == width * height
  IN  IF total_pixels <= SmallLimit THEN "small"
      ELSE IF total_pixels < MediumLimit THEN "medium"
      ELSE "large"

categorize_by_size(width, height) ==
  LET total_pixels == width * height
  IN  IF total_pixels < SmallLimit THEN "small"
      ELSE IF total_pixels < MediumLimit THEN "medium"
      ELSE "large"

\* calculate_file_hash: the digest of the bytes; open() fails on an
\* unreadable file.
CanHash(f) == f.readable

calculate_file_hash(f) == "md5-" \o f.content

\* shutil.copy2(src, dst): fails on an unreadable source; otherwise dst, the
\* file stem<ext> in dir, holds the bytes and metadata of src, replacing
\* whatever was at dst.
CanCopy(f) == f.readable

\* Faulty variant: shutil.move in place of shutil.copy2.
copy2_moving(files, f, dir, stem) ==
  LET new == [f EXCEPT !.dir = dir, !.name = stem \o f.ext, !.stem = stem]
  IN  {g \in files : ~SamePath(g, new) /\ ~SamePath(g, f)} \cup {new}

copy2(files, f, dir, stem) ==
  LET new == [f EXCEPT !.dir = dir, !.name = stem \o f.ext, !.stem = stem]
  IN  {g \in files : ~SamePath(g, new)} \cup {new}

\* Faulty variant: no loop, the first name is taken as it is.
FreeStem_unchecked(files, dir, base, ext, stem, counter) == stem

\* Faulty variant: the counter is incremented before it is used.
RECURSIVE FreeStem_late(_, _, _, _, _, _)
FreeStem_late(files, dir, base, ext, stem, counter) ==
  IF Exists(files, dir, stem \o ext)
  THEN FreeStem_late(files, dir, base, ext,
                     base \o "_" \o ToStr(counter + 1), counter + 1)
  ELSE stem

\* The while loop of both organizers: the first of stem, base_1, base_2, ...
\* whose name stem<ext> does not exist in dir.
RECURSIVE FreeStem(_, _, _, _, _, _)
FreeStem(files, dir, base, ext, stem, counter) ==
  IF Exists(files, dir, stem \o ext)
  THEN FreeStem(files, dir, base, ext, base \o "_" \o ToStr(counter), counter + 1)
  ELSE stem

(* ------------------------------ operations ----------------------------- *)

\* The outcome of a call so far: the files below the source directory, the
\* value the call builds up to return, and whether an exception left it.
Outcome(files) == [fs |-> files, ret |-> << >>, raised |-> FALSE]

\* The body of the loop of organize_by_date for one scanned file; an
\* exception inside the try block is logged and changes nothing.
organize_by_date_step(acc, f) ==
  IF ~Selected(f) THEN acc
  ELSE
    LET date     == get_image_date(f)
        folder   == Join(Join(DateTargetDir, ToStr(date.year)), Pad2(date.month))
        base     == Strftime(date)
        stem     == FreeStem(acc.fs, folder, base, f.ext, base, 1)
    IN  IF ~CanCopy(f) THEN acc
        ELSE [acc EXCEPT !.fs  = copy2(@, f, folder, stem),
                         !.ret = Append(@, [key |-> "date", orig |-> Name(f),
                                            new |-> Join(folder, stem \o f.ext)])]

\* organize_by_date(source_dir): the dict of lists it returns is kept as the
\* sequence of its appended pairs, each tagged with its key.
RECURSIVE organize_by_date_loop(_, _, _)
organize_by_date_loop(acc, order, i) ==
  IF i > Len(order) THEN acc
  ELSE organize_by_date_loop(organize_by_date_step(acc, order[i]), order, i + 1)

organize_by_date(files, order) == organize_by_date_loop(Outcome(files), order, 1)

\* Faulty variant: no try block, the first exception ends the loop.
organize_by_size_step_uncaught(acc, f) ==
  IF acc.raised \/ ~Selected(f) THEN acc
  ELSE
    LET size     == get_image_size(f)
        category == categorize_by_size(size[1], size[2])
        folder   == Join(SizeTargetDir, category)
        stem     == FreeStem(acc.fs, folder, f.stem, f.ext, f.stem, 1)
    IN  IF ~CanCopy(f) THEN [acc EXCEPT !.raised = TRUE]
        ELSE [acc EXCEPT !.fs  = copy2(@, f, folder, stem),
                         !.ret = Append(@, [key |-> category, orig |-> Name(f),
                                            new |-> Join(folder, stem \o f.ext)])]

organize_by_size_step(acc, f) ==
  IF ~Selected(f) THEN acc
  ELSE
    LET size     == get_image_size(f)
        category == categorize_by_size(size[1], size[2])
        folder   == Join(SizeTargetDir, category)
        stem     == FreeStem(acc.fs, folder, f.stem, f.ext, f.stem, 1)
    IN  IF ~CanCopy(f) THEN acc
        ELSE [acc EXCEPT !.fs  = copy2(@, f, folder, stem),
                         !.ret = Append(@, [key |-> category, orig |-> Name(f),
                                            new |-> Join(folder, stem \o f.ext)])]

RECURSIVE organize_by_size_loop(_, _, _)
organize_by_size_loop(acc, order, i) ==
  IF i > Len(order) THEN acc
  ELSE organize_by_size_loop(organize_by_size_step(acc, order[i]), order, i + 1)

organize_by_size(files, order) == organize_by_size_loop(Outcome(files), order, 1)

\* hash_to_files[file_hash].append(img_file): an insertion-ordered mapping,
\* kept as the sequence of its (hash, files) items.
find_duplicates_step(groups, f) ==
  IF ~Selected(f) \/ ~CanHash(f) THEN groups
  ELSE
    LET h == calculate_file_hash(f)
    IN  IF \E i \in DOMAIN groups : groups[i].hash = h
        THEN [i \in DOMAIN groups |->
                IF groups[i].hash = h
                THEN [groups[i] EXCEPT !.files = Append(@, f)]
                ELSE groups[i]]
        ELSE Append(groups, [hash |-> h, files |-> <<f>>])

\* Faulty variant: len(files) > 0.
MoreThanNone(g) == Len(g.files) > 0

MoreThanOne(g) == Len(g.files) > 1

RECURSIVE find_duplicates_loop(_, _, _)
find_duplicates_loop(groups, order, i) ==
  IF i > Len(order) THEN groups
  ELSE find_duplicates_loop(find_duplicates_step(groups, order[i]), order, i + 1)

find_duplicates(files, order) ==
  SelectSeq(find_duplicates_loop(<< >>, order, 1), MoreThanOne)

\* list.sort(key=lambda f: f.stat().st_mtime): a stable sort, written as the
\* insertion of each element behind those that do not compare greater.
InsertByMtime(sorted, f) ==
  LET k == Cardinality({i \in DOMAIN sorted : sorted[i].mtime <= f.mtime})
  IN  SubSeq(sorted, 1, k) \o <<f>> \o SubSeq(sorted, k + 1, Len(sorted))

RECURSIVE SortLoop(_, _, _)
SortLoop(sorted, files, i) ==
  IF i > Len(files) THEN sorted
  ELSE SortLoop(InsertByMtime(sorted, files[i]), files, i + 1)

SortByMtime(files) == SortLoop(<< >>, files, 1)

\* Faulty variant: the two slices exchanged.
FilesToRemove_swapped(files, keep) ==
  IF keep = "last" THEN Tail(files) ELSE SubSeq(files, 1, Len(files) - 1)

\* Faulty variant: one duplicate of each group removed, files[-2:-1] and
\* files[1:2].
FilesToRemove_one(files, keep) ==
  IF keep = "last" THEN SubSeq(files, Len(files) - 1, Len(files) - 1)
  ELSE SubSeq(files, 2, 2)

\* files[:-1] when keep == 'last', files[1:] otherwise.
FilesToRemove(files, keep) ==
  IF keep = "last" THEN SubSeq(files, 1, Len(files) - 1) ELSE Tail(files)

\* file.unlink(); removed.append(file.name). A failing unlink raises, and
\* nothing in remove_duplicates catches it.
unlink_step(acc, f) ==
  IF acc.raised THEN acc
  ELSE IF ~f.deletable THEN [acc EXCEPT !.raised = TRUE]
  ELSE [acc EXCEPT !.fs  = {g \in @ : ~SamePath(g, f)},
                   !.ret = Append(@, Name(f))]

RECURSIVE unlink_loop(_, _, _)
unlink_loop(acc, files_to_remove, i) ==
  IF i > Len(files_to_remove) THEN acc
  ELSE unlink_loop(unlink_step(acc, files_to_remove[i]), files_to_remove, i + 1)

RECURSIVE remove_loop(_, _, _, _)
remove_loop(acc, duplicates, i, keep) ==
  IF i > Len(duplicates) \/ acc.raised THEN acc
  ELSE remove_loop(
         unlink_loop(acc, FilesToRemove(SortByMtime(duplicates[i].files), keep), 1),
         duplicates, i + 1, keep)

remove_duplicates(files, order, keep) ==
  remove_loop(Outcome(files), find_duplicates(files, order), 1, keep)

(* ------------------------------ dispatcher ----------------------------- *)

Flags == [by_date : BOOLEAN, by_size : BOOLEAN, find_dupes : BOOLEAN,
          remove_dupes : BOOLEAN, keep : {"first", "last"}]

\* Faulty variant: a chain of independent ifs.
Dispatch_every(args) ==
  (IF args.by_date THEN <<"organize_by_date">> ELSE << >>)
    \o (IF args.by_size THEN <<"organize_by_size">> ELSE << >>)
    \o (IF args.find_dupes THEN <<"find_duplicates">> ELSE << >>)
    \o (IF args.remove_dupes THEN <<"remove_duplicates">> ELSE << >>)

\* The if / elif chain of main: the component it calls for the parsed
\* arguments, as the sequence of the calls it makes.
Dispatch(args) ==
  IF args.by_date THEN <<"organize_by_date">>
  ELSE IF args.by_size THEN <<"organize_by_size">>
  ELSE IF args.find_dupes THEN <<"find_duplicates">>
  ELSE IF args.remove_dupes THEN <<"remove_duplicates">>
  ELSE << >>

\* One call of a component on the files, under one scan order: the files
\* afterwards, what the call returned, and whether it raised.
Call(op, files, order, keep) ==
  CASE op = "organize_by_date" -> organize_by_date(files, order)
    [] op = "organize_by_size" -> organize_by_size(files, order)
    [] op = "find_duplicates" ->
         [Outcome(files) EXCEPT !.ret = find_duplicates(files, order)]
    [] op = "remove_duplicates" -> remove_duplicates(files, order, keep)

\* The calls of main, one after the other; a call that raises ends main.
RECURSIVE RunCalls(_, _, _, _, _)
RunCalls(calls, i, acc, order, keep) ==
  IF i > Len(calls) \/ acc.raised THEN acc
  ELSE RunCalls(calls, i + 1, Call(calls[i], acc.fs, order, keep), order, keep)

NoArgs == [by_date |-> FALSE, by_size |-> FALSE, find_dupes |-> FALSE,
           remove_dupes |-> FALSE, keep |-> "first"]

(* ------------------------------ the system ----------------------------- *)

\* The folder and the name an organizer first tries for the file f
\* (lines 73-77 and 113).
TargetOf(op, f) ==
  IF op = "organize_by_date"
  THEN LET date == get_image_date(f)
       IN  <<Join(Join(DateTargetDir, ToStr(date.year)), Pad2(date.month)),
             Strftime(date) \o f.ext>>
  ELSE LET size == get_image_size(f)
       IN  <<Join(SizeTargetDir, categorize_by_size(size[1], size[2])), f.name>>

FileNamed(files, name) == CHOOSE f \in files : f.dir = "" /\ f.name = name

\* The targets of the files an organizer copied, in the order of the copies.
Targets(op, pre, ret) ==
  [i \in DOMAIN ret |-> TargetOf(op, FileNamed(pre, ret[i].orig))]

Count(bag, key) == IF key \in DOMAIN bag THEN bag[key] ELSE 0

Occurrences(seq, key) == Cardinality({i \in DOMAIN seq : seq[i] = key})

\* History: how many files have been copied to each (folder, name) target.
Copied(bag, op, pre, ret) ==
  IF op \in {"organize_by_date", "organize_by_size"}
  THEN LET t == Targets(op, pre, ret)
       IN  [k \in DOMAIN bag \cup {t[i] : i \in DOMAIN t} |->
              Count(bag, k) + Occurrences(t, k)]
  ELSE bag

\* The record of the operation that ran last: its name, how it was started,
\* the files before it, what it returned and whether it raised, and the name
\* and outcome of the operation before it.
Record(op, via, args, invoked, pre, r, before) ==
  [op |-> op, via |-> via, args |-> args, invoked |-> invoked, pre |-> pre,
   ret |-> r.ret, raised |-> r.raised,
   prev |-> [op |-> before.op, raised |-> before.raised]]

NoRecord(files) ==
  Record("none", "none", NoArgs, << >>, files, Outcome(files),
         [op |-> "none", raised |-> FALSE])

Init ==
  /\ fs \in {S \in SUBSET Universe : Cardinality(S) <= MaxFiles}
  /\ last = NoRecord(fs)
  /\ copies = << >>
  /\ runs = 0

Run(op, keep) ==
  /\ runs < MaxOps
  /\ \E order \in ScanOrders(Glob(fs)) :
       \E r \in {Call(op, fs, order, keep)} :
           /\ fs' = r.fs
           /\ last' = Record(op, "call", [NoArgs EXCEPT !.keep = keep],
                             <<op>>, fs, r, last)
           /\ copies' = Copied(copies, op, fs, r.ret)
  /\ runs' = runs + 1

OrganizeByDate == Run("organize_by_date", "first")

OrganizeBySize == Run("organize_by_size", "first")

FindDuplicates == Run("find_duplicates", "first")

RemoveDuplicates == \E keep \in {"first", "last"} : Run("remove_duplicates", keep)

\* python image_organizer.py source [--by-date] [--by-size] [--find-dupes]
\* [--remove-dupes] [--keep {first,last}]
Main ==
  /\ runs < MaxMainOps
  /\ \E args \in Flags : \E order \in ScanOrders(Glob(fs)) :
       \E calls \in {Dispatch(args)} :
       \E r \in {RunCalls(calls, 1, Outcome(fs), order, args.keep)} :
           /\ fs' = r.fs
           /\ last' = Record(IF calls = << >> THEN "none" ELSE calls[Len(calls)],
                             "main", args, calls, fs, r, last)
           /\ copies' = IF Len(calls) = 1
                        THEN Copied(copies, calls[1], fs, r.ret) ELSE copies
  /\ runs' = runs + 1

\* The components called as functions of the module.
Next ==
  \/ OrganizeByDate
  \/ OrganizeBySize
  \/ FindDuplicates
  \/ RemoveDuplicates

Spec == Init /\ [][Next]_vars

\* The program run from the command line, on directories made of five of
\* the files.
MainUniverse == {f \in Universe : f.name \in {"a.jpg", "a_1.jpg", "c.png", "d.txt", "g.jpg"}}

InitMain ==
  /\ fs \in {S \in SUBSET MainUniverse : Cardinality(S) <= MaxMainFiles}
  /\ last = NoRecord(fs)
  /\ copies = << >>
  /\ runs = 0

NextMain == Main

SpecMain == InitMain /\ [][NextMain]_vars

(* ------------------------------ properties ----------------------------- *)

Organizers == {"organize_by_date", "organize_by_size"}

\* The files directly in the source directory.
Top(files) == {f \in files : f.dir = ""}

\* The files the operations select: directly in the source directory, with
\* a supported extension in any case.
SelectedFiles(files) ==
  {f \in Top(files) : f.ext # "" /\ Lower(f.ext) \in SupportedExts}

HashedFiles(files) == {f \in SelectedFiles(files) : f.readable}

SameBytes(files, f) == {g \in files : g.content = f.content}

\* The classes of two or more selected, hashable files with the same bytes.
DuplicateGroups(files) ==
  {G \in {SameBytes(HashedFiles(files), f) : f \in HashedFiles(files)} :
     Cardinality(G) >= 2}

Oldest(G) == CHOOSE t \in {f.mtime : f \in G} : \A f \in G : t <= f.mtime

Newest(G) == CHOOSE t \in {f.mtime : f \in G} : \A f \in G : t >= f.mtime

Range(seq) == {seq[i] : i \in DOMAIN seq}

\* C1: remove_duplicates(keep) keeps, of every duplicate group, a file with
\* the smallest modification time (keep = 'first') or with the largest one
\* (keep = 'last'), and when it returns that file is the only member of the
\* group left.
C1_OneSurvivorPerGroup ==
  last.op = "remove_duplicates" =>
    \A G \in DuplicateGroups(last.pre) :
      /\ \E f \in G \cap fs :
           f.mtime = IF last.args.keep = "last" THEN Newest(G) ELSE Oldest(G)
      /\ ~last.raised => Cardinality(G \cap fs) = 1

\* A group of three files with increasing modification times, reduced to its
\* oldest file by keep = 'first'.
C1_Witness ==
  /\ last.op = "remove_duplicates" /\ last.args.keep = "first" /\ ~last.raised
  /\ \E G \in DuplicateGroups(last.pre) :
       /\ Cardinality(G) = 3
       /\ Cardinality({f.mtime : f \in G}) = 3
       /\ \E f \in G : G \cap fs = {f} /\ f.mtime = Oldest(G)

\* C2: organize_by_date, organize_by_size and find_duplicates leave the files
\* directly in the source directory as they are; remove_duplicates deletes
\* only members of duplicate groups, so that every file with bytes no other
\* selected file shares and every file with an unsupported extension stays.
C2_OriginalsKept ==
  /\ last.op \in Organizers \cup {"find_duplicates"} => Top(fs) = Top(last.pre)
  /\ last.op = "remove_duplicates" =>
       /\ fs \subseteq last.pre
       /\ \A f \in last.pre \ fs : \E G \in DuplicateGroups(last.pre) : f \in G
       /\ \A f \in Top(last.pre) :
            (f \notin SelectedFiles(last.pre)
               \/ SameBytes(HashedFiles(last.pre), f) \subseteq {f}) => f \in fs
  /\ last.op = "none" => fs = last.pre

\* remove_duplicates deleted a duplicate while a file with the same bytes and
\* an unsupported extension stayed, in a directory an organizer had run on.
C2_Witness ==
  /\ last.op = "remove_duplicates" /\ last.prev.op \in Organizers
  /\ fs # Top(fs)
  /\ \E f \in last.pre \ fs : \E g \in Top(fs) :
       g.content = f.content /\ g \notin SelectedFiles(fs)

\* The groups find_duplicates returned, each as the set of its files.
ReturnedGroups(ret) == {Range(ret[i].files) : i \in DOMAIN ret}

\* C4: find_duplicates returns exactly the classes of two or more selected,
\* hashed files with the same digest: no group is smaller than two, the files
\* of a group have one digest, and no file is listed twice, in one group or
\* in two.
C4_ExactlyTheDuplicateClasses ==
  last.op = "find_duplicates" =>
    /\ ReturnedGroups(last.ret) = DuplicateGroups(last.pre)
    /\ \A i \in DOMAIN last.ret :
         /\ Len(last.ret[i].files) >= 2
         /\ Cardinality(Range(last.ret[i].files)) = Len(last.ret[i].files)
         /\ \A f \in Range(last.ret[i].files) :
              calculate_file_hash(f) = last.ret[i].hash
    /\ \A i, j \in DOMAIN last.ret :
         i # j => /\ Range(last.ret[i].files) \cap Range(last.ret[j].files) = {}
                  /\ last.ret[i].hash # last.ret[j].hash
    /\ fs = last.pre

\* Two files with the same bytes returned as one group of two, beside a
\* selected file with other bytes that is in no group.
C4_Witness ==
  /\ last.op = "find_duplicates" /\ Len(last.ret) = 1
  /\ Len(last.ret[1].files) = 2
  /\ \E f \in HashedFiles(last.pre) : f \notin Range(last.ret[1].files)

SizeFolders == {Join(SizeTargetDir, c) : c \in {"small", "medium", "large"}}

\* The files of the tree an organizer writes.
Tree(op, files) ==
  IF op = "organize_by_size"
  THEN {f \in files : f.dir \in SizeFolders}
  ELSE {f \in files : f.dir # "" /\ f.dir \notin SizeFolders}

\* The selected files an organizer can copy: those it can read.
CopyableFiles(files) == {f \in SelectedFiles(files) : f.readable}

Paths(files) == {Join(f.dir, f.name) : f \in files}

\* C3 as stated: an organizer run twice from an empty destination tree
\* leaves twice as many files there as the directory has selected files, the
\* files of the first run among them.
C3_TwiceTheSelectedFiles ==
  (runs = 2 /\ last.op \in Organizers /\ last.prev.op = last.op) =>
    /\ last.pre \subseteq fs
    /\ Cardinality(Tree(last.op, fs)) = 2 * Cardinality(SelectedFiles(fs))

\* C3, amended: an organizer never overwrites. Every file there was before a
\* run is there unchanged after it, every copy of the run is at a path of its
\* own that did not exist before, and a run copies each selected file it can
\* read once; so two runs from an empty tree leave twice as many files there
\* as the directory has selected readable files.
C3_NeverOverwrites ==
  last.op \in Organizers =>
    /\ last.pre \subseteq fs
    /\ Cardinality(Paths(fs)) = Cardinality(Paths(last.pre)) + Len(last.ret)
    /\ Cardinality(fs) = Cardinality(Paths(fs))
    /\ Len(last.ret) = Cardinality(CopyableFiles(last.pre))
    /\ (runs = 2 /\ last.prev.op = last.op) =>
         Cardinality(Tree(last.op, fs)) = 2 * Cardinality(CopyableFiles(fs))

\* The second of two runs of one organizer on two or more copyable files.
C3_Witness ==
  /\ runs = 2 /\ last.op \in Organizers /\ last.prev.op = last.op
  /\ Cardinality(CopyableFiles(fs)) >= 2
  /\ Cardinality(Tree(last.op, fs)) = 2 * Cardinality(Tree(last.op, last.pre))
  /\ Tree(last.op, last.pre) # {}

OpensAsImage(f) == f.readable /\ Contents[f.content].img

Entries(ret, name) == {i \in DOMAIN ret : ret[i].orig = name}

\* C5 as stated: an organizer skips every selected file that does not open as
\* an image: the file is not in the result and no copy of it is made.
C5_UnreadableImageSkipped ==
  last.op \in Organizers =>
    \A f \in SelectedFiles(last.pre) :
      ~OpensAsImage(f) =>
        /\ Entries(last.ret, f.name) = {}
        /\ \A g \in fs \ last.pre : g.content # f.content \/ g.mtime # f.mtime

\* C5, amended: an organizer skips a selected file only when processing it
\* raises, which is when the file cannot be read at all: no copy of it is made
\* and it is not in the result, and every other selected file is still copied
\* once. A readable file that does not open as an image is not skipped: the
\* date organizer files it under its modification time and the size
\* organizer under 'small'.
C5_OnlyFailedCopiesSkipped ==
  last.op \in Organizers =>
    /\ ~last.raised
    /\ Paths(fs \ last.pre) = {last.ret[i].new : i \in DOMAIN last.ret}
    /\ \A f \in SelectedFiles(last.pre) :
         /\ Cardinality(Entries(last.ret, f.name)) = IF f.readable THEN 1 ELSE 0
         /\ \A i \in Entries(last.ret, f.name) :
              /\ \E g \in fs \ last.pre :
                   /\ Join(g.dir, g.name) = last.ret[i].new
                   /\ g.content = f.content /\ g.mtime = f.mtime
                   /\ ~OpensAsImage(f) =>
                        g.dir = IF last.op = "organize_by_size"
                                THEN Join(SizeTargetDir, "small")
                                ELSE LET d == FromTimestamp(f.mtime)
                                     IN  Join(Join(DateTargetDir, ToStr(d.year)),
                                              Pad2(d.month))
    /\ \A i \in DOMAIN last.ret :
         \E f \in SelectedFiles(last.pre) : f.name = last.ret[i].orig

\* An organizer ran on an unreadable file, a file that is no image and a
\* third file: it returned the last two.
C5_Witness ==
  /\ last.op \in Organizers /\ Len(last.ret) = 2
  /\ \E f \in SelectedFiles(last.pre) : ~f.readable
  /\ \E f \in SelectedFiles(last.pre) :
       f.readable /\ ~OpensAsImage(f) /\ Entries(last.ret, f.name) # {}

Ladder(pixels) ==
  IF pixels < 500000 THEN "small"
  ELSE IF pixels < 2000000 THEN "medium"
  ELSE "large"

SampleWidths == {0, 1, 2, 640, 1000, 2000, 499999, 500000, 500001}

SampleHeights == {0, 1, 2, 4, 480, 500, 1000, 1200, 1500}

TargetStem(op, f) ==
  IF op = "organize_by_date" THEN Strftime(get_image_date(f)) ELSE f.stem

\* The name with the suffix _n before the extension; n = 0 is the name
\* without a suffix.
Suffixed(op, f, n) ==
  IF n = 0 THEN TargetStem(op, f) \o f.ext
  ELSE TargetStem(op, f) \o "_" \o ToStr(n) \o f.ext

\* The number of files copied to the target t before the i-th copy of the
\* last run: those of earlier runs and those of this run.
CopiedBefore(t, i) ==
  LET ts == Targets(last.op, last.pre, last.ret)
  IN  (Count(copies, t) - Occurrences(ts, t))
        + Cardinality({j \in 1..(i - 1) : ts[j] = t})

\* C8 as stated: in a destination folder that was empty at first, the k-th
\* file copied to one base name lands at <base>_<k-1><ext>, the first at
\* <base><ext>.
C8_KthCopyGetsSuffixKMinus1 ==
  last.op \in Organizers =>
    \A i \in DOMAIN last.ret :
      LET f == FileNamed(last.pre, last.ret[i].orig)
          t == TargetOf(last.op, f)
      IN  last.ret[i].new = Join(t[1], Suffixed(last.op, f, CopiedBefore(t, i)))

\* C8, amended: on a collision an organizer takes the suffix _n, before the
\* extension, with the smallest n >= 1 whose name does not exist in the
\* folder. The k-th file copied to one base name lands at <base>_<k-1><ext>
\* when no file copied to the folder had one of the names <base>_1<ext> ..
\* <base>_<k-1><ext> as its own base name, which is always so in the date
\* organizer.
C8_SmallestFreeSuffix ==
  last.op \in Organizers =>
    \A i \in DOMAIN last.ret :
      LET f == FileNamed(last.pre, last.ret[i].orig)
          t == TargetOf(last.op, f)
          k == CopiedBefore(t, i)
          taken == Paths(last.pre) \cup {last.ret[j].new : j \in 1..(i - 1)}
          Candidate(n) == Join(t[1], Suffixed(last.op, f, n))
          own == \A m \in 1..k : CopiedBefore(<<t[1], Suffixed(last.op, f, m)>>, i) = 0
      IN  /\ \E n \in 0..Cardinality(fs) :
               /\ last.ret[i].new = Candidate(n)
               /\ Candidate(n) \notin taken
               /\ \A m \in 0..(n - 1) : Candidate(m) \in taken
          /\ own => last.ret[i].new = Candidate(k)
          /\ last.op = "organize_by_date" => own

\* Two photos taken at 2021:06:15 10:30:00, both .jpg: the date organizer
\* files the second one as 20210615_103000_1.jpg.
C8_Witness ==
  /\ last.op = "organize_by_date" /\ Tree(last.op, last.pre) = {}
  /\ \E i, j \in DOMAIN last.ret :
       /\ i < j
       /\ last.ret[i].new = "organized_by_date/2021/06/20210615_103000.jpg"
       /\ last.ret[j].new = "organized_by_date/2021/06/20210615_103000_1.jpg"

\* C9 as stated: remove_duplicates catches the failure to delete one file,
\* skips that file, still deletes the other duplicates it can delete, and
\* returns the names of the files it deleted.
C9_FailedDeleteIsSkipped ==
  last.op = "remove_duplicates" =>
    /\ ~last.raised
    /\ \A G \in DuplicateGroups(last.pre) :
         \E kept \in G :
           /\ kept.mtime = IF last.args.keep = "last" THEN Newest(G) ELSE Oldest(G)
           /\ \A f \in G \ {kept} : f.deletable => f \notin fs
    /\ Range(last.ret) = {f.name : f \in last.pre \ fs}
    /\ Len(last.ret) = Cardinality(last.pre \ fs)

\* The sum over the groups of (group size - 1).
RECURSIVE Spare(_)
Spare(groups) ==
  IF groups = {} THEN 0
  ELSE LET G == CHOOSE H \in groups : TRUE
       IN  (Cardinality(G) - 1) + Spare(groups \ {G})

\* C10: when remove_duplicates returns, no two selected files that can be
\* hashed have the same digest (no two selected files at all, when every one
\* of them can be hashed), and it returns one name for every member of a
\* duplicate group but one; find_duplicates run next returns no group, and
\* remove_duplicates run next deletes nothing and returns the empty list.
C10_RemoveIsIdempotent ==
  /\ (last.op = "remove_duplicates" /\ ~last.raised) =>
       /\ DuplicateGroups(fs) = {}
       /\ HashedFiles(fs) = SelectedFiles(fs) =>
            \A f, g \in SelectedFiles(fs) : f.content = g.content => f = g
       /\ Len(last.ret) = Spare(DuplicateGroups(last.pre))
       /\ Len(last.ret) = Cardinality(last.pre \ fs)
  /\ (last.prev.op = "remove_duplicates" /\ ~last.prev.raised) =>
       /\ last.op = "find_duplicates" => last.ret = << >>
       /\ last.op = "remove_duplicates" =>
            last.ret = << >> /\ fs = last.pre /\ ~last.raised

\* remove_duplicates run a second time, after a first run that deleted
\* duplicates and returned.
C10_Witness ==
  /\ last.op = "remove_duplicates" /\ last.prev.op = "remove_duplicates"
  /\ ~last.prev.raised /\ ~last.raised
  /\ \E f \in Universe : f \notin fs /\ \E g \in HashedFiles(fs) : g.content = f.content
  /\ Cardinality(SelectedFiles(fs)) >= 2

AnyMode(args) ==
  args.by_date \/ args.by_size \/ args.find_dupes \/ args.remove_dupes

Flagged(args, component) ==
  CASE component = "organize_by_date" -> args.by_date
    [] component = "organize_by_size" -> args.by_size
    [] component = "find_duplicates" -> args.find_dupes
    [] component = "remove_duplicates" -> args.remove_dupes

\* C6: whatever mode flags are given, main calls exactly one component, once,
\* and it is one whose flag is given; without a mode flag it calls none and
\* leaves the files as they are.
C6_OneComponentPerRun ==
  last.via = "main" =>
    /\ AnyMode(last.args) =>
         /\ Len(last.invoked) = 1
         /\ last.invoked[1] \in Organizers \cup {"find_duplicates", "remove_duplicates"}
         /\ Flagged(last.args, last.invoked[1])
         /\ last.op = last.invoked[1]
    /\ ~AnyMode(last.args) =>
         last.invoked = << >> /\ fs = last.pre /\ last.ret = << >>

\* main given --by-size and --remove-dupes on a directory with duplicates:
\* it ran the size organizer alone.
C6_Witness ==
  /\ last.via = "main" /\ last.args.by_size /\ last.args.remove_dupes
  /\ last.invoked = <<"organize_by_size">>
  /\ DuplicateGroups(fs) # {} /\ fs # last.pre

====
